---------------------------- MODULE Spec2Model ----------------------------
(***************************************************************************)
(* A model of sentry_stack.py (TeslaSentry): the file-name pattern re_vid, *)
(* event_groups, the SentryEvent dataclass, compose_stack_cmd and the      *)
(* batch loop of main.                                                     *)
(*                                                                         *)
(* File and directory names are sequences of one-character strings, so     *)
(* that the regular expression, str.find and sorted() act on them as they  *)
(* do in the program.  A Path is [abs, parts]; str(path) and the tokens of *)
(* a command are TLA+ strings.                                             *)
(***************************************************************************)
EXTENDS Integers, Sequences, FiniteSets, TLC

VARIABLES
    opt,          \* the Namespace of get_args: sentry_dir, scale, speed, ...
    global_opts,  \* the unrecognised arguments, "-y" appended by main
    subdirs,      \* names of the sub-directories of sentry_dir
    files,        \* the files that exist (Paths, relative to the cwd or absolute)
    pc,           \* where main (or the function under study) is
    events,       \* main's list of SentryEvent
    idx,          \* index in events of the event of the for loop's turn
    cmd,          \* result of the latest compose_stack_cmd
    stdout,       \* what has been listed, printed and run, in order
    turn,         \* per event: did its output exist when its turn began
    listing,      \* event_groups: what events_dir.iterdir() returns, in its order
    grps          \* event_groups: the outcome

vars == <<opt, global_opts, subdirs, files, pc, events, idx, cmd,
          stdout, turn, listing, grps>>

---------------------------------------------------------------------------
(* Characters and strings                                                  *)

Digits == <<"0", "1", "2", "3", "4", "5", "6", "7", "8", "9">>

\* The characters that occur in names, in code point order (str comparison).
Alphabet ==
    <<"-", ".", "0", "1", "2", "3", "4", "5", "6", "7", "8", "9", "_",
      "a", "b", "c", "d", "e", "f", "g", "h", "i", "j", "k", "l", "m",
      "n", "o", "p", "q", "r", "s", "t", "u", "v", "w", "x", "y", "z">>

\* ord(c), up to the order it gives
OrdTable == [c \in {Alphabet[i] : i \in DOMAIN Alphabet} |->
               CHOOSE i \in DOMAIN Alphabet : Alphabet[i] = c]

Ord(c) == OrdTable[c]

\* int(c) of one decimal digit
DigitTable == [c \in {Digits[i] : i \in DOMAIN Digits} |->
                 (CHOOSE i \in DOMAIN Digits : Digits[i] = c) - 1]

IsDigit(c) == c \in DOMAIN DigitTable

DigitVal(c) == DigitTable[c]

\* int(s) of a string of decimal digits
RECURSIVE IntOf(_)
IntOf(cs) ==
    IF cs = <<>> THEN 0
    ELSE 10 * IntOf(SubSeq(cs, 1, Len(cs) - 1)) + DigitVal(cs[Len(cs)])

\* f"{n}" of a non-negative int
RECURSIVE Dec(_)
Dec(n) ==
    IF n < 10 THEN <<Digits[n + 1]>>
    ELSE Dec(n \div 10) \o <<Digits[(n % 10) + 1]>>

\* strftime's zero-padded fields: %m %d %H %M %S (w = 2) and %Y (w = 4; the
\* years used here have four digits, where every platform's %Y agrees)
RECURSIVE Pad(_, _)
Pad(n, w) ==
    IF w = 0 THEN <<>>
    ELSE Pad(n \div 10, w - 1) \o <<Digits[(n % 10) + 1]>>

\* the Python str of a sequence of characters
RECURSIVE Str(_)
Str(cs) == IF cs = <<>> THEN "" ELSE Head(cs) \o Str(Tail(cs))

\* s.find(sub) != -1
Contains(s, sub) ==
    \E i \in 0..(Len(s) - Len(sub)) : SubSeq(s, i + 1, i + Len(sub)) = sub

\* s < t for str (lexicographic by code point)
RECURSIVE StrLess(_, _)
StrLess(s, t) ==
    IF t = <<>> THEN FALSE
    ELSE IF s = <<>> THEN TRUE
    ELSE IF Head(s) # Head(t) THEN Ord(Head(s)) < Ord(Head(t))
    ELSE StrLess(Tail(s), Tail(t))

\* The sequences that hold each element of the set S once.
RECURSIVE Perms(_)
Perms(S) ==
    IF S = {} THEN {<<>>}
    ELSE UNION {{<<x>> \o p : p \in Perms(S \ {x})} : x \in S}

RangeOf(s) == {s[i] : i \in DOMAIN s}

---------------------------------------------------------------------------
(* re_vid and datetime                                                     *)

FRONT == <<"f", "r", "o", "n", "t">>
BACK == <<"b", "a", "c", "k">>
LEFT == <<"l", "e", "f", "t">>
RIGHT == <<"r", "i", "g", "h", "t">>
REPEATER == <<"_", "r", "e", "p", "e", "a", "t", "e", "r">>
LEFT_REPEATER == LEFT \o REPEATER
RIGHT_REPEATER == RIGHT \o REPEATER
MP4 == <<".", "m", "p", "4">>

\* the pattern with "." where it has "-" and "_"
LitAny(c, want) == TRUE

\* a literal character of the pattern
Lit(c, want) == c = want

\* \d{4}-\d{2}-\d{2}_\d{2}-\d{2}-\d{2}-  matched at the start of the name
StampShape(name) ==
    /\ Len(name) >= 20
    /\ \A i \in {1, 2, 3, 4, 6, 7, 9, 10, 12, 13, 15, 16, 18, 19} : IsDigit(name[i])
    /\ \A i \in {5, 8, 14, 17, 20} : Lit(name[i], "-")
    /\ Lit(name[11], "_")

\* where "\.mp4" can match after "(?P<view>.*)"
ExtStarts(name) ==
    {j \in 21..(Len(name) - 3) : SubSeq(name, j, j + 3) = MP4}

\* re_vid.match(name) is not None
ReVidMatch(name) == StampShape(name) /\ ExtStarts(name) # {}

\* [int(c) for c in m.groups()[:-1]]
StampFields(name) ==
    <<IntOf(SubSeq(name, 1, 4)), IntOf(SubSeq(name, 6, 7)),
      IntOf(SubSeq(name, 9, 10)), IntOf(SubSeq(name, 12, 13)),
      IntOf(SubSeq(name, 15, 16)), IntOf(SubSeq(name, 18, 19))>>

IsLeap(y) == (y % 4 = 0) /\ ((y % 100 # 0) \/ (y % 400 = 0))

DaysInMonth(y, m) ==
    IF m = 2 THEN (IF IsLeap(y) THEN 29 ELSE 28)
    ELSE IF m \in {4, 6, 9, 11} THEN 30 ELSE 31

\* datetime(y, m, d, H, M, S) does not raise ValueError
ValidDateTime(f) ==
    /\ f[1] \in 1..9999
    /\ f[2] \in 1..12
    /\ f[3] \in 1..DaysInMonth(f[1], f[2])
    /\ f[4] \in 0..23
    /\ f[5] \in 0..59
    /\ f[6] \in 0..59

---------------------------------------------------------------------------
(* pathlib.Path                                                            *)

\* Path(name) for a bare file or directory name
NamePath(name) == [abs |-> FALSE, parts |-> <<name>>]

\* a / b : an absolute right operand replaces the left one
PathJoin(a, b) ==
    IF b.abs THEN b ELSE [abs |-> a.abs, parts |-> a.parts \o b.parts]

\* path.parent
Parent(p) == [abs |-> p.abs, parts |-> SubSeq(p.parts, 1, Len(p.parts) - 1)]

RECURSIVE JoinParts(_)
JoinParts(parts) ==
    IF Len(parts) = 1 THEN Str(parts[1])
    ELSE Str(Head(parts)) \o "/" \o JoinParts(Tail(parts))

\* str(path)
PathStr(p) ==
    IF p.parts = <<>> THEN (IF p.abs THEN "/" ELSE ".")
    ELSE (IF p.abs THEN "/" ELSE "") \o JoinParts(p.parts)

---------------------------------------------------------------------------
(* events_dir_iter and event_groups                                        *)

\* events_dir_iter: the paths sentry_dir.iterdir() yields for the
\* sub-directories named in order
EventsDirIter(sentry_dir, order) ==
    [i \in DOMAIN order |-> PathJoin(sentry_dir, NamePath(order[i]))]

\* grps[grp_id].append(vid) on a defaultdict(list), which keeps the order in
\* which its keys were first used
AddVid(g, grp_id, vid) ==
    IF \E i \in DOMAIN g : g[i].id = grp_id
    THEN [i \in DOMAIN g |->
            IF g[i].id = grp_id THEN [g[i] EXCEPT !.vids = Append(@, vid)] ELSE g[i]]
    ELSE Append(g, [id |-> grp_id, vids |-> <<vid>>])

\* the body of the for loop of event_groups over the names that are left;
\* datetime() raising ValueError ends the function
RECURSIVE GroupLoop(_, _)
GroupLoop(names, g) ==
    IF names = <<>> THEN [exc |-> "none", grps |-> g]
    ELSE LET vid == Head(names) IN
         IF ~ReVidMatch(vid) THEN GroupLoop(Tail(names), g)
         ELSE IF ~ValidDateTime(StampFields(vid))
              THEN [exc |-> "ValueError", grps |-> <<>>]
              ELSE GroupLoop(Tail(names), AddVid(g, StampFields(vid), vid))

\* sorted(events_dir.iterdir()): the entries of one directory, by name
SortedNames(entries) == SortSeq(entries, StrLess)

\* event_groups(events_dir), given what events_dir.iterdir() returns
EventGroups(entries) == GroupLoop(SortedNames(entries), <<>>)

---------------------------------------------------------------------------
(* SentryEvent                                                             *)

SentryEvent(sentry_dir, date_dir, id, video_paths) ==
    [sentry_dir |-> sentry_dir, date_dir |-> date_dir,
     sentry_event_id |-> id, video_paths |-> video_paths]

\* SentryEvent.event_dir
EventDir(e) == PathJoin(e.sentry_dir, e.date_dir)

\* SentryEvent.get_view: the first path that holds the text, or IndexError
GetView(e, view) ==
    LET found == SelectSeq(e.video_paths, LAMBDA p : Contains(p, view))
    IN  IF found = <<>> THEN [exc |-> "IndexError"]
        ELSE [exc |-> "none", val |-> found[1]]

\* SentryEvent.front
Front(e) ==
    LET r == GetView(e, FRONT)
    IN  IF r.exc # "none" THEN r
        ELSE [exc |-> "none", val |-> PathJoin(EventDir(e), NamePath(r.val))]

\* strftime('%Y-%m-%d-%H-%M-%S') followed by _st{scale}_sp{speed}_q{quality}.mp4
OutputName(id, scale, speed, quality) ==
    Pad(id[1], 4) \o <<"-">> \o Pad(id[2], 2) \o <<"-">> \o Pad(id[3], 2) \o <<"-">>
    \o Pad(id[4], 2) \o <<"-">> \o Pad(id[5], 2) \o <<"-">> \o Pad(id[6], 2)
    \o <<"_", "s", "t">> \o Dec(scale) \o <<"_", "s", "p">> \o Dec(speed)
    \o <<"_", "q">> \o Dec(quality) \o MP4

\* SentryEvent.output_path
OutputPath(e, scale, speed, quality) ==
    PathJoin(EventDir(e), NamePath(OutputName(e.sentry_event_id, scale, speed, quality)))

---------------------------------------------------------------------------
(* compose_stack_cmd                                                       *)

\* left and right exchanged
ViewsSwapped == <<FRONT, BACK, RIGHT, LEFT>>

\* views = ["front", "back", "left", "right"]
Views == <<FRONT, BACK, LEFT, RIGHT>>

\* the loop without its except branch
ViewNoFallback(e, v) == GetView(e, v)

\* the try/except of the first loop: the view's file, the front file when
\* get_view raises IndexError, and IndexError when that raises as well
ViewOrFront(e, v) ==
    LET r == GetView(e, v)
    IN  IF r.exc = "none" THEN r ELSE GetView(e, FRONT)

\* f"{1/speed}": the repr of the float
FloatRepr(speed) ==
    CASE speed = 1 -> "1.0"
      [] speed = 2 -> "0.5"
      [] speed = 3 -> "0.3333333333333333"
      [] speed = 4 -> "0.25"
      [] speed = 5 -> "0.2"
      [] speed = 6 -> "0.16666666666666666"
      [] speed = 7 -> "0.14285714285714285"
      [] speed = 8 -> "0.125"

\* the three tokens the second loop adds for input i (0-based), joined
ScaleTokens(i, scale) ==
    "[" \o ToString(i - 1) \o ":v]"
    \o "scale=iw/" \o ToString(scale) \o ":ih/" \o ToString(scale)
    \o "[" \o Str(Views[i]) \o "];"

\* filter_string
FilterString(scale, speed) ==
    ScaleTokens(1, scale) \o ScaleTokens(2, scale)
    \o ScaleTokens(3, scale) \o ScaleTokens(4, scale)
    \o "[front][back]" \o "hstack" \o "[long];"
    \o "[right][left]" \o "hstack" \o "[lat];"
    \o "[long][lat]" \o "vstack" \o "[all];"
    \o "[all]" \o "setpts=" \o FloatRepr(speed) \o "*PTS" \o "[res]"

\* cmd.extend(["-i", str(event.event_dir / <file>)]) for view i
InputTokens(e, i) ==
    <<"-i", PathStr(PathJoin(EventDir(e), NamePath(ViewOrFront(e, Views[i]).val)))>>

\* compose_stack_cmd: the command, or the IndexError that leaves it
ComposeStackCmd(e, scale, speed, quality, gopts) ==
    IF \E i \in DOMAIN Views : ViewOrFront(e, Views[i]).exc # "none"
    THEN [exc |-> "IndexError"]
    ELSE IF speed = 0 THEN [exc |-> "ZeroDivisionError"]
    ELSE [exc |-> "none",
          val |-> <<"ffmpeg">> \o gopts
                  \o InputTokens(e, 1) \o InputTokens(e, 2)
                  \o InputTokens(e, 3) \o InputTokens(e, 4)
                  \o <<"-an", "-filter_complex">>
                  \o <<FilterString(scale, speed)>>
                  \o <<"-c:v", "libx264", "-crf", ToString(quality)>>
                  \o <<"-map", "[res]", PathStr(OutputPath(e, scale, speed, quality))>>]

---------------------------------------------------------------------------
(* Inputs                                                                  *)

EV == <<"e", "v">>
SRV == <<"s", "r", "v">>
D1 == <<"d", "1">>
D2 == <<"d", "2">>

\* --sentry-dir: the default "./", a relative "./ev" and an absolute "/srv/ev",
\* as Path() holds them
Roots ==
    {[abs |-> FALSE, parts |-> <<>>],
     [abs |-> FALSE, parts |-> <<EV>>],
     [abs |-> TRUE, parts |-> <<SRV, EV>>]}

\* capture times, as datetime fields
T1 == <<2024, 1, 2, 3, 4, 5>>
T2 == <<2024, 1, 2, 3, 5, 5>>

\* the view texts the recorder writes
ViewTexts == {FRONT, BACK, LEFT_REPEATER, RIGHT_REPEATER}

\* the name the recorder gives the clip of one view: <stamp>-<view>.mp4
SrcName(f, view) ==
    Pad(f[1], 4) \o <<"-">> \o Pad(f[2], 2) \o <<"-">> \o Pad(f[3], 2) \o <<"_">>
    \o Pad(f[4], 2) \o <<"-">> \o Pad(f[5], 2) \o <<"-">> \o Pad(f[6], 2)
    \o <<"-">> \o view \o MP4

\* --scale, --speed, --quality: positive ints
Scales == {2, 4}
Speeds == {1, 2}
Qualities == {20, 23}

\* the Namespace of get_args
Options(roots, scales, speeds, qualities, flags) ==
    [sentry_dir : roots, scale : scales, speed : speeds, quality : qualities,
     overwrite : flags, dry_run : flags, list_dir : flags]

\* a result that has not been computed yet
Unset == [exc |-> "unset"]

---------------------------------------------------------------------------
(* compose_stack_cmd on its own: any event of one capture time, its video  *)
(* list in any order                                                       *)

VideoLists == UNION {Perms(S) : S \in SUBSET {SrcName(T1, v) : v \in ViewTexts}}

InitCompose ==
    /\ opt \in Options(Roots, Scales, Speeds, Qualities, {FALSE})
    /\ global_opts \in {<<>>, <<"-y">>}
    /\ events \in {<<SentryEvent(opt.sentry_dir, PathJoin(opt.sentry_dir, NamePath(D1)), T1, vp)>> :
                     vp \in VideoLists}
    /\ pc = "compose"
    /\ cmd = Unset
    /\ subdirs = {} /\ files = {} /\ idx = 1
    /\ stdout = <<>> /\ turn = <<>> /\ listing = <<>> /\ grps = Unset

ComposeCall ==
    /\ pc = "compose"
    /\ cmd' = ComposeStackCmd(events[1], opt.scale, opt.speed, opt.quality, global_opts)
    /\ pc' = "composed"
    /\ UNCHANGED <<opt, global_opts, subdirs, files, events, idx, stdout,
                   turn, listing, grps>>

SpecCompose == InitCompose /\ [][ComposeCall]_vars

\* the event has a file of the view
HasView(e, view) == \E i \in DOMAIN e.video_paths : Contains(e.video_paths[i], view)

\* str of the path of the event's file of the view
ViewFile(e, view) ==
    PathStr(PathJoin(EventDir(e),
        NamePath(CHOOSE p \in RangeOf(e.video_paths) : Contains(p, view))))

\* the tokens that follow an "-i", in order
CmdInputs(c) ==
    LET P == {i \in 1..(Len(c) - 1) : c[i] = "-i"}
    IN  [k \in 1..Cardinality(P) |->
            c[1 + (CHOOSE i \in P : Cardinality({j \in P : j < i}) = k - 1)]]

\* C1: an event that lacks a front, a left-repeater or a right-repeater file
\* gets no command from compose_stack_cmd (no other view's file stands in).
C1_MissingViewFails ==
    (/\ pc = "composed"
     /\ \E v \in {FRONT, LEFT_REPEATER, RIGHT_REPEATER} : ~HasView(events[1], v))
    => cmd.exc # "none"

\* C2: an event with front, left-repeater and right-repeater files and no
\* back file gets a complete command with exactly four inputs: front, front,
\* left, right.
C2_BackSubstitution ==
    (/\ pc = "composed"
     /\ \A v \in {FRONT, LEFT_REPEATER, RIGHT_REPEATER} : HasView(events[1], v)
     /\ ~HasView(events[1], BACK))
    => /\ cmd.exc = "none"
       /\ CmdInputs(cmd.val) =
            <<ViewFile(events[1], FRONT), ViewFile(events[1], FRONT),
              ViewFile(events[1], LEFT_REPEATER), ViewFile(events[1], RIGHT_REPEATER)>>
       /\ cmd.val[1] = "ffmpeg"
       /\ cmd.val[Len(cmd.val)] =
            PathStr(OutputPath(events[1], opt.scale, opt.speed, opt.quality))

C2_Witness ==
    /\ pc = "composed"
    /\ \A v \in {FRONT, LEFT_REPEATER, RIGHT_REPEATER} : HasView(events[1], v)
    /\ ~HasView(events[1], BACK)
    /\ events[1].video_paths[1] # SrcName(T1, FRONT)
    /\ cmd.exc = "none"

\* the filter graph for the inputs in the order front, back, left, right:
\* front beside back on top, right beside left below
StackGraph(scale, speed) ==
    LET s == ToString(scale)
    IN  "[0:v]scale=iw/" \o s \o ":ih/" \o s \o "[front];"
        \o "[1:v]scale=iw/" \o s \o ":ih/" \o s \o "[back];"
        \o "[2:v]scale=iw/" \o s \o ":ih/" \o s \o "[left];"
        \o "[3:v]scale=iw/" \o s \o ":ih/" \o s \o "[right];"
        \o "[front][back]hstack[long];[right][left]hstack[lat];[long][lat]vstack[all];"
        \o "[all]setpts=" \o (IF speed = 1 THEN "1.0" ELSE IF speed = 2 THEN "0.5" ELSE FloatRepr(speed))
        \o "*PTS[res]"

\* the token after "-filter_complex"
CmdFilter(c) == c[1 + (CHOOSE i \in DOMAIN c : c[i] = "-filter_complex")]

OneFilePerView(e) ==
    /\ Len(e.video_paths) = 4
    /\ \A v \in ViewTexts : HasView(e, v)

\* C5: for an event with one file per view the inputs are declared in the
\* order front, back, left, right whatever the order of the video list, the
\* filter graph scales input 0/1/2/3 into front/back/left/right and stacks
\* front|back over right|left, and reordering the video list does not change
\* the command.
C5_InputOrder ==
    (pc = "composed" /\ OneFilePerView(events[1]))
    => /\ cmd.exc = "none"
       /\ CmdInputs(cmd.val) =
            <<ViewFile(events[1], FRONT), ViewFile(events[1], BACK),
              ViewFile(events[1], LEFT_REPEATER), ViewFile(events[1], RIGHT_REPEATER)>>
       /\ CmdFilter(cmd.val) = StackGraph(opt.scale, opt.speed)
       /\ \A vp \in Perms(RangeOf(events[1].video_paths)) :
            ComposeStackCmd([events[1] EXCEPT !.video_paths = vp],
                            opt.scale, opt.speed, opt.quality, global_opts) = cmd

C5_Witness ==
    /\ pc = "composed"
    /\ OneFilePerView(events[1])
    /\ events[1].video_paths[1] = SrcName(T1, RIGHT_REPEATER)
    /\ events[1].video_paths[4] = SrcName(T1, FRONT)
    /\ cmd.exc = "none"

---------------------------------------------------------------------------
(* event_groups on its own: any listing of a few entries, in any order     *)

MaxEntries == 3

\* digit fields of the pattern's shape that are no date or time
TMonth13 == <<2024, 13, 2, 3, 4, 5>>
THour25 == <<2024, 1, 2, 25, 4, 5>>

\* thumb.png
Thumb == <<"t", "h", "u", "m", "b", ".", "p", "n", "g">>

\* 2024-1-02_03-04-05-front.mp4: a month of one digit
ShortMonth ==
    Pad(2024, 4) \o <<"-">> \o Dec(1) \o <<"-">> \o Pad(2, 2) \o <<"_">>
    \o Pad(3, 2) \o <<"-">> \o Pad(4, 2) \o <<"-">> \o Pad(5, 2)
    \o <<"-">> \o FRONT \o MP4

\* names of output files of events of T1 and T2
OutputNames ==
    {OutputName(t, sc, sp, q) : t \in {T1, T2}, sc \in Scales, sp \in Speeds, q \in Qualities}

\* what a sub-directory may hold
EntryNames ==
    {SrcName(t, v) : t \in {T1, T2}, v \in {FRONT, BACK}}
    \cup {SrcName(TMonth13, FRONT), SrcName(THour25, BACK)}
    \cup {Thumb, ShortMonth, SrcName(T1, LEFT_REPEATER) \o <<".", "b", "a", "k">>}
    \cup {OutputName(T1, 4, 1, 23), OutputName(T2, 2, 2, 20)}

Listings ==
    UNION {Perms(S) : S \in {X \in SUBSET EntryNames : Cardinality(X) <= MaxEntries}}

InitGroup ==
    /\ listing \in Listings
    /\ grps = Unset
    /\ pc = "group"
    /\ opt \in Options({[abs |-> FALSE, parts |-> <<>>]}, {4}, {1}, {23}, {FALSE})
    /\ global_opts = <<>> /\ events = <<>> /\ cmd = Unset
    /\ subdirs = {} /\ files = {} /\ idx = 1
    /\ stdout = <<>> /\ turn = <<>>

GroupCall ==
    /\ pc = "group"
    /\ grps' = EventGroups(listing)
    /\ pc' = "grouped"
    /\ UNCHANGED <<opt, global_opts, subdirs, files, events, idx, cmd,
                   stdout, turn, listing>>

SpecGroup == InitGroup /\ [][GroupCall]_vars

\* the name denotes a capture timestamp
DenotesStamp(n) == ReVidMatch(n) /\ ValidDateTime(StampFields(n))

\* the indices of the groups that hold the entry
GroupsOf(g, n) == {i \in DOMAIN g : n \in RangeOf(g[i].vids)}

\* C6: event_groups puts every entry whose name denotes a capture timestamp
\* into exactly one group, the groups hold nothing else, two entries share a
\* group exactly if their timestamps are equal, and the outcome is the same
\* for every order in which the directory returns its entries.
C6_Partition ==
    pc = "grouped"
    => LET M == {n \in RangeOf(listing) : DenotesStamp(n)}
           g == grps.grps
       IN  /\ \A n \in M : Cardinality(GroupsOf(g, n)) = 1
           /\ \A i \in DOMAIN g : RangeOf(g[i].vids) \subseteq M
           /\ \A i \in DOMAIN g : Cardinality(RangeOf(g[i].vids)) = Len(g[i].vids)
           /\ \A m, n \in M :
                (GroupsOf(g, m) = GroupsOf(g, n)) <=> (StampFields(m) = StampFields(n))
           /\ \A p \in Perms(RangeOf(listing)) : EventGroups(p) = grps

\* C7: event_groups never fails; an entry whose name denotes no valid capture
\* timestamp (month 13, hour 25) is left out and the others are grouped.
C7_NeverFails ==
    pc = "grouped"
    => /\ grps.exc = "none"
       /\ UNION {RangeOf(grps.grps[i].vids) : i \in DOMAIN grps.grps}
            = {n \in RangeOf(listing) : DenotesStamp(n)}

\* C10: no output file name matches the video-file pattern, so a listing
\* that holds output files is grouped as the listing without them is.
C10_OutputsNotSources ==
    /\ \A n \in OutputNames : ~ReVidMatch(n)
    /\ pc = "grouped"
       => grps = EventGroups(SelectSeq(listing, LAMBDA n : n \notin OutputNames))

C10_Witness ==
    /\ pc = "grouped"
    /\ grps.exc = "none"
    /\ Len(grps.grps) = 1
    /\ \E i, j \in DOMAIN listing :
         /\ listing[i] = OutputName(T1, 4, 1, 23)
         /\ listing[j] = SrcName(T1, FRONT)
         /\ i < j

---------------------------------------------------------------------------
(* main: one run over a source directory with the sub-directories d1, d2   *)

MaxFiles == 3
MaxPre == 1
MaxExt == 1

\* the path of the sub-directory d of the source directory
SubDir(root, d) == PathJoin(root, NamePath(d))

\* the clips the sub-directories may hold
SourceFiles(root) ==
    {PathJoin(SubDir(root, D1), NamePath(SrcName(T1, v))) : v \in {FRONT, BACK, LEFT_REPEATER}}
    \cup {PathJoin(SubDir(root, D1), NamePath(SrcName(T2, FRONT))),
          PathJoin(SubDir(root, D2), NamePath(SrcName(T1, FRONT))),
          PathJoin(SubDir(root, D2), NamePath(SrcName(TMonth13, FRONT)))}

\* outputs that earlier runs with the same parameters left beside the clips
EarlierOutputs(o, src) ==
    {PathJoin(Parent(f),
              NamePath(OutputName(StampFields(f.parts[Len(f.parts)]),
                                  o.scale, o.speed, o.quality))) :
       f \in {x \in src : DenotesStamp(x.parts[Len(x.parts)])}}

\* the names of the entries of a directory
Entries(fs, dir) == {f.parts[Len(f.parts)] : f \in {x \in fs : Parent(x) = dir}}

Init ==
    /\ opt \in Options(Roots, {4}, {1}, {23}, BOOLEAN)
    /\ global_opts = <<>>
    /\ subdirs = {D1, D2}
    /\ \E src \in {X \in SUBSET SourceFiles(opt.sentry_dir) : Cardinality(X) <= MaxFiles} :
         \E pre \in {X \in SUBSET EarlierOutputs(opt, src) : Cardinality(X) <= MaxPre} :
            files = src \cup pre
    /\ pc = "start"
    /\ events = <<>>
    /\ idx = 1
    /\ cmd = Unset
    /\ stdout = <<>>
    /\ turn = <<>>
    /\ listing = <<>>
    /\ grps = Unset

\* one line of what the run lists, prints and runs
Line(kind, ev, text, made) == [kind |-> kind, ev |-> ev, text |-> text, made |-> made]

\* the events of the sub-directory dir, whose groups are g
DirEvents(root, dir, g) ==
    [i \in DOMAIN g |-> SentryEvent(root, dir, g[i].id, g[i].vids)]

\* events_dir.iterdir() for main: the names of dir in one order.  Which
\* order is immaterial, event_groups sorts what it is given (C6_Partition
\* states, under SpecGroup, that every order gives the same groups).
RECURSIVE Enumerate(_)
Enumerate(S) ==
    IF S = {} THEN <<>>
    ELSE LET x == CHOOSE y \in S : TRUE IN <<x>> \o Enumerate(S \ {x})

IterDir(fs, dir) == Enumerate(Entries(fs, dir))

\* the list comprehension of main over the sub-directories dirs
RECURSIVE AllEvents(_, _, _)
AllEvents(root, dirs, fs) ==
    IF dirs = <<>> THEN [exc |-> "none", val |-> <<>>]
    ELSE LET g == EventGroups(IterDir(fs, Head(dirs))) IN
         IF g.exc # "none" THEN [exc |-> g.exc]
         ELSE LET rest == AllEvents(root, Tail(dirs), fs) IN
              IF rest.exc # "none" THEN rest
              ELSE [exc |-> "none",
                    val |-> DirEvents(root, Head(dirs), g.grps) \o rest.val]

\* main up to "found n events": -y for --overwrite, the listing for
\* --list-dir, the events of every sub-directory, the sub-directories in the
\* order in which sentry_dir.iterdir() returns them
Scan ==
    /\ pc = "start"
    /\ global_opts' = IF opt.overwrite THEN Append(global_opts, "-y") ELSE global_opts
    /\ \E order \in Perms(subdirs) :
         LET dirs == EventsDirIter(opt.sentry_dir, order)
             listed == IF opt.list_dir
                       THEN <<Line("list", 0, [i \in DOMAIN dirs |-> PathStr(dirs[i])], {})>>
                       ELSE <<>>
             found == AllEvents(opt.sentry_dir, dirs, files)
         IN  /\ stdout' = stdout \o listed
             /\ IF found.exc = "none"
                THEN events' = found.val /\ pc' = "loop"
                ELSE events' = events /\ pc' = "ValueError"
    /\ UNCHANGED <<opt, subdirs, files, idx, cmd, turn, listing, grps>>

\* the output path of the event of this turn
Op == OutputPath(events[idx], opt.scale, opt.speed, opt.quality)

\* the loop without the existence check
SkipNever(overwrite, exists) == FALSE

\* "if not opt.overwrite: ... if op.exists(): ... continue"
SkipExisting(overwrite, exists) == ~overwrite /\ exists

InTurn == pc = "loop" /\ idx <= Len(events)

\* the for loop is exhausted
Finish ==
    /\ pc = "loop" /\ idx > Len(events)
    /\ pc' = "done"
    /\ UNCHANGED <<opt, global_opts, subdirs, files, events, idx, cmd,
                   stdout, turn, listing, grps>>

\* the output exists and --overwrite is not given: go on with the next event
Skip ==
    /\ InTurn
    /\ SkipExisting(opt.overwrite, Op \in files)
    /\ turn' = Append(turn, Op \in files)
    /\ stdout' = Append(stdout, Line("skip", idx, <<PathStr(Op)>>, {}))
    /\ idx' = idx + 1
    /\ UNCHANGED <<opt, global_opts, subdirs, files, pc, events, cmd,
                   listing, grps>>

\* print(event.front) raises IndexError: the event has no front file
FrontRaises ==
    /\ InTurn
    /\ ~SkipExisting(opt.overwrite, Op \in files)
    /\ Front(events[idx]).exc # "none"
    /\ turn' = Append(turn, Op \in files)
    /\ pc' = "IndexError"
    /\ UNCHANGED <<opt, global_opts, subdirs, files, events, idx, cmd,
                   stdout, listing, grps>>

\* the command is composed and printed; with --dry-run the turn ends here
Compose ==
    /\ InTurn
    /\ ~SkipExisting(opt.overwrite, Op \in files)
    /\ Front(events[idx]).exc = "none"
    /\ turn' = Append(turn, Op \in files)
    /\ LET c == ComposeStackCmd(events[idx], opt.scale, opt.speed, opt.quality, global_opts)
       IN  /\ cmd' = c
           /\ IF c.exc # "none"
              THEN pc' = "IndexError" /\ UNCHANGED <<stdout, idx>>
              ELSE /\ stdout' = Append(stdout, Line("print", idx, c.val, {}))
                   /\ IF opt.dry_run
                      THEN pc' = "loop" /\ idx' = idx + 1
                      ELSE pc' = "run" /\ idx' = idx
    /\ UNCHANGED <<opt, global_opts, subdirs, files, events, listing, grps>>

\* the paths of the four inputs of the command of event e
InputPaths(e) ==
    {PathJoin(EventDir(e), NamePath(ViewOrFront(e, Views[i]).val)) : i \in DOMAIN Views}

\* sp.run(cmd) returns: the engine wrote the output (it can only if it can
\* read its inputs) or failed; other processes may have written files
\* meanwhile
Run ==
    /\ pc = "run"
    /\ \E ok \in BOOLEAN :
         \E ext \in {X \in SUBSET {OutputPath(events[k], opt.scale, opt.speed, opt.quality) :
                                      k \in (idx + 1)..Len(events)} :
                       Cardinality(X) <= MaxExt} :
            LET made == (IF ok THEN {Op} ELSE {}) \cup ext
            IN  /\ ok => InputPaths(events[idx]) \subseteq files
                /\ files' = files \cup made
                /\ stdout' = Append(stdout, Line("run", idx, cmd.val, made \ files))
    /\ idx' = idx + 1
    /\ pc' = "loop"
    /\ UNCHANGED <<opt, global_opts, subdirs, events, cmd, turn, listing, grps>>

\* sp.run(cmd) raises FileNotFoundError: there is no ffmpeg to start
RunRaises ==
    /\ pc = "run"
    /\ pc' = "FileNotFoundError"
    /\ UNCHANGED <<opt, global_opts, subdirs, files, events, idx, cmd,
                   stdout, turn, listing, grps>>

Next == Scan \/ Finish \/ Skip \/ FrontRaises \/ Compose \/ Run \/ RunRaises

Spec == Init /\ [][Next]_vars

\* main has returned or an exception has left it
Ended == pc \in {"done", "ValueError", "IndexError", "FileNotFoundError"}

\* the lines about event k
LinesOf(k, kinds) == {i \in DOMAIN stdout : stdout[i].ev = k /\ stdout[i].kind \in kinds}

\* C3: a failure while composing or executing the command of one event does
\* not end the batch: when the run has ended, every event has had its turn.
C3_BatchContinues == Ended => Len(turn) = Len(events)

\* C4: the output path of every event is R/<sub-directory>/<output name>,
\* R's components appearing once, which is the sub-directory that was listed
\* for the event, and the four inputs of its command lie in that
\* sub-directory.
C4_OutputBesideSources ==
    /\ \A k \in DOMAIN events :
         LET e == events[k]
             sub == e.date_dir.parts[Len(e.date_dir.parts)]
         IN  /\ e.date_dir = SubDir(opt.sentry_dir, sub)
             /\ OutputPath(e, opt.scale, opt.speed, opt.quality) =
                  PathJoin(SubDir(opt.sentry_dir, sub),
                    NamePath(OutputName(e.sentry_event_id, opt.scale, opt.speed, opt.quality)))
    /\ \A i \in DOMAIN stdout :
         stdout[i].kind = "print"
         => LET e == events[stdout[i].ev]
                ins == CmdInputs(stdout[i].text)
            IN  \A j \in DOMAIN ins :
                  \E n \in RangeOf(e.video_paths) :
                     ins[j] = PathStr(PathJoin(e.date_dir, NamePath(n)))

\* C8: without --overwrite no command is composed, printed or run for an
\* event whose output exists when its turn begins; the event is skipped and
\* the run goes on.  The path is looked up at the turn, so a file that appeared
\* during an earlier event's engine run is seen.
C8_SkipExisting ==
    ~opt.overwrite
    => /\ \A k \in DOMAIN turn :
            /\ turn[k] => LinesOf(k, {"print", "run"}) = {} /\ LinesOf(k, {"skip"}) # {}
            /\ ~turn[k] => LinesOf(k, {"skip"}) = {}
            /\ turn[k] /\ pc \in {"run", "IndexError", "FileNotFoundError"} => idx # k
       /\ \A i \in DOMAIN stdout :
            stdout[i].kind = "run"
            => \A k \in DOMAIN turn :
                 (k > stdout[i].ev
                  /\ OutputPath(events[k], opt.scale, opt.speed, opt.quality) \in stdout[i].made)
                 => turn[k] /\ LinesOf(k, {"print", "run"}) = {}
       /\ \A k \in DOMAIN turn :
            (Ended /\ turn[k] /\ k < Len(events)) => k + 1 \in DOMAIN turn

C8_Witness ==
    /\ ~opt.overwrite
    /\ Len(events) = 3
    /\ \E i, j, k \in DOMAIN stdout :
         /\ i < j /\ j < k
         /\ stdout[i].kind = "run" /\ stdout[i].ev = 1
         /\ OutputPath(events[2], opt.scale, opt.speed, opt.quality) \in stdout[i].made
         /\ stdout[j].kind = "skip" /\ stdout[j].ev = 2
         /\ stdout[k].kind = "run" /\ stdout[k].ev = 3

\* C9: with --list-dir the run lists the sub-directories and processes no
\* event: nothing is composed, printed or run.
C9_ListOnly ==
    opt.list_dir
    => /\ \A i \in DOMAIN stdout : stdout[i].kind \notin {"print", "run"}
       /\ cmd = Unset

=============================================================================
